---------------------------- MODULE Spec2Model ----------------------------
(***************************************************************************)
(* worker-to-promise: workerToPromise(func, payload, dependencies,         *)
(* workerProps) builds a worker script from the text of func, spawns a     *)
(* node:worker_threads Worker running it and maps the worker's first       *)
(* 'message' (or its 'error' events) onto one Promise.                     *)
(*                                                                         *)
(* Source: src/lib/worker-to-promise.js.  Program text, messages and       *)
(* stacks are TLA+ strings, so that substring(), replace(), split(),       *)
(* JSON.stringify and JSON.parse are modelled by what they do to text.     *)
(***************************************************************************)
EXTENDS Integers, Sequences, FiniteSets, TLC

(***************************************************************************)
(* Bounds of the model.                                                    *)
(***************************************************************************)
\* Number of invocations of workerToPromise that may be in flight together.
MaxInvocations == 2
\* Number of messages the relocated function may post on parentPort itself.
MaxPosts == 1

(***************************************************************************)
(* Text.  A TLA+ string literal cannot hold a lone backtick; BT is one.    *)
(***************************************************************************)
BT == SubSeq("`'", 1, 1)

CharAt(s, i) == SubSeq(s, i, i)

\* s.substring(a): the text from 0-based offset a to the end.
SubstringFrom(s, a) == SubSeq(s, a + 1, Len(s))

\* s.substring(a, b): the text between 0-based offsets a (included) and b.
Substring(s, a, b) ==
  LET lo == IF a < Len(s) THEN a ELSE Len(s)
      hi == IF b < Len(s) THEN b ELSE Len(s)
  IN  SubSeq(s, lo + 1, hi)

\* 1-based position of the first occurrence of p in s, 0 when there is none.
IndexOf(s, p) ==
  LET hits == {i \in 1..(Len(s) - Len(p) + 1) : SubSeq(s, i, i + Len(p) - 1) = p}
  IN  IF hits = {} THEN 0 ELSE CHOOSE i \in hits : \A j \in hits : i <= j

\* The replacement patterns String.prototype.replace expands in a replacement
\* string when the pattern is a string: $$, $&, $` and $'.
RECURSIVE ExpandReplacement(_, _, _, _, _)
ExpandReplacement(r, i, matched, before, after) ==
  LET rest == SubSeq(r, i, Len(r))
      at == IndexOf(rest, "$")
      d == IF at < Len(rest) THEN CharAt(rest, at + 1) ELSE ""
      plain == SubSeq(rest, 1, at - 1)
  IN  IF at = 0 THEN rest
      ELSE IF d = "$"
        THEN plain \o "$" \o ExpandReplacement(r, i + at + 1, matched, before, after)
      ELSE IF d = "&"
        THEN plain \o matched \o ExpandReplacement(r, i + at + 1, matched, before, after)
      ELSE IF d = BT
        THEN plain \o before \o ExpandReplacement(r, i + at + 1, matched, before, after)
      ELSE IF d = "'"
        THEN plain \o after \o ExpandReplacement(r, i + at + 1, matched, before, after)
      ELSE plain \o "$" \o ExpandReplacement(r, i + at, matched, before, after)

\* s.replace(p, r) for a string pattern p: the first occurrence only.
Replace(s, p, r) ==
  LET at == IndexOf(s, p)
      before == SubSeq(s, 1, at - 1)
      after == SubSeq(s, at + Len(p), Len(s))
  IN  IF at = 0 THEN s
      ELSE before
             \o (IF IndexOf(r, "$") = 0 THEN r
                 ELSE ExpandReplacement(r, 1, p, before, after))
             \o after

\* s.split('\n')
SplitLines(s) ==
  LET NL == {i \in 1..Len(s) : CharAt(s, i) = "\n"}
      n == Cardinality(NL)
      Kth(k) == CHOOSE p \in NL : Cardinality({q \in NL : q < p}) = k - 1
  IN  [k \in 1..(n + 1) |->
         SubSeq(s, IF k = 1 THEN 1 ELSE Kth(k - 1) + 1,
                   IF k = n + 1 THEN Len(s) ELSE Kth(k) - 1)]

\* lines.join(sep)
RECURSIVE Join(_, _)
Join(lines, sep) ==
  IF Len(lines) = 0 THEN ""
  ELSE IF Len(lines) = 1 THEN lines[1]
  ELSE lines[1] \o sep \o Join(Tail(lines), sep)

IsWhitespace(c) == c \in {" ", "\n", "\t", "\r"}

\* s.trim()
Trim(s) ==
  LET first == CHOOSE i \in 1..(Len(s) + 1) :
                 /\ i = Len(s) + 1 \/ ~IsWhitespace(CharAt(s, i))
                 /\ \A j \in 1..(i - 1) : IsWhitespace(CharAt(s, j))
      last == CHOOSE i \in 0..Len(s) :
                /\ i = 0 \/ ~IsWhitespace(CharAt(s, i))
                /\ \A j \in (i + 1)..Len(s) : IsWhitespace(CharAt(s, j))
  IN  SubSeq(s, first, last)

(***************************************************************************)
(* JavaScript values.  Every value is a record of one shape; t is its      *)
(* type, the other fields are 0 or "" where the type has none.  For an     *)
(* Error, a WorkerError and a plain {message, stack} object, message and   *)
(* stack are their properties; generatedCode is WorkerError's own.         *)
(***************************************************************************)
JSV(t, num, str, message, stack, generatedCode) ==
  [t |-> t, num |-> num, str |-> str, message |-> message, stack |-> stack,
   generatedCode |-> generatedCode]

Undefined == JSV("undefined", 0, "", "", "", "")
Null == JSV("null", 0, "", "", "", "")
NaN == JSV("NaN", 0, "", "", "", "")
BigInt1 == JSV("bigint", 1, "", "", "", "")
True == JSV("boolean", 1, "", "", "", "")
False == JSV("boolean", 0, "", "", "", "")
Num(n) == JSV("number", n, "", "", "", "")
Str(s) == JSV("string", 0, s, "", "", "")
\* An Error instance with the given message and stack (TypeError, SyntaxError
\* and the host's errors are told apart by str, their name).
Err(name, message, stack) == JSV("Error", 0, name, message, stack, "")
\* The plain object {message, stack}.
Obj(message, stack) == JSV("object", 0, "", message, stack, "")
\* The plain object {}.
EmptyObj == JSV("object", 1, "", "", "", "")

\* What evaluating an expression ends with: a value, or a thrown exception.
Normal(v) == [threw |-> FALSE, value |-> v]
Throw(e) == [threw |-> TRUE, value |-> e]

\* String(v), as a template literal ${v} converts v.
TemplateString(v) ==
  CASE v.t = "string" -> v.str
    [] v.t = "number" -> ToString(v.num)
    [] v.t = "undefined" -> "undefined"
    [] v.t = "null" -> "null"
    [] v.t = "NaN" -> "NaN"
    [] OTHER -> "[object Object]"

(***************************************************************************)
(* JSON.                                                                   *)
(***************************************************************************)
RECURSIVE JSONEscape(_)
JSONEscape(s) ==
  IF s = "" THEN ""
  ELSE LET c == CharAt(s, 1)
       IN  (CASE c = "\"" -> "\\\""
              [] c = "\\" -> "\\\\"
              [] c = "\n" -> "\\n"
              [] OTHER -> c) \o JSONEscape(SubSeq(s, 2, Len(s)))

JSONQuote(s) == "\"" \o JSONEscape(s) \o "\""

\* JSON.stringify(v): a string, undefined (for undefined), or a TypeError.
JSONstringify(v) ==
  CASE v.t = "number" -> Normal(Str(ToString(v.num)))
    [] v.t \in {"NaN", "null"} -> Normal(Str("null"))
    [] v.t = "undefined" -> Normal(Undefined)
    [] v.t = "boolean" -> Normal(Str(IF v.num = 1 THEN "true" ELSE "false"))
    [] v.t = "string" -> Normal(Str(JSONQuote(v.str)))
    [] v.t = "bigint" ->
         Throw(Err("TypeError", "Do not know how to serialize a BigInt",
                   "TypeError: Do not know how to serialize a BigInt\n    at JSON.stringify"))
    [] v.t = "object" /\ v.num = 1 -> Normal(Str("{}"))
    [] v.t = "object" /\ v.num = 0 ->
         Normal(Str("{\"message\":" \o JSONQuote(v.message)
                      \o ",\"stack\":" \o JSONQuote(v.stack) \o "}"))
    [] OTHER -> Normal(Str("{}"))

\* The messages and stacks of the errors of the model.
ErrorMessages ==
  {"X", "Y", "late", "Do not know how to serialize a BigInt"}
ErrorStacks ==
  {"Error: X\n    at workerFunc", "Error: Y\n    at workerFunc",
   "Error: late\n    at Timeout",
   "TypeError: Do not know how to serialize a BigInt\n    at JSON.stringify"}

\* The values JSON text of the model can denote.
JSONDomain ==
  {Null, True, False, EmptyObj}
    \cup {Num(n) : n \in 0..16}
    \cup {Str(s) : s \in {"", "a~b", "$2", "$4"}}
    \cup {Obj(m, st) : m \in ErrorMessages, st \in ErrorStacks}

\* The JSON text of each of them, computed once.
JSONText == [v \in JSONDomain |-> JSONstringify(v).value.str]

\* JSON.parse(text): the value whose JSON text this is, or a SyntaxError.
JSONparse(text) ==
  LET denoted == {v \in JSONDomain : JSONText[v] = text}
  IN  IF denoted = {}
        THEN Throw(Err("SyntaxError", "Unexpected token in JSON",
                       "SyntaxError: Unexpected token in JSON\n    at JSON.parse"))
        ELSE Normal(CHOOSE v \in denoted : TRUE)

(***************************************************************************)
(* WorkerError (lines 109-125).                                            *)
(***************************************************************************)
\* Mutant of NumberLines: the lines are numbered from 0.
NumberLinesFromZero(text) ==
  LET lines == SplitLines(text)
  IN  Join([k \in 1..Len(lines) |-> ToString(k - 1) \o ": " \o lines[k]], "\n")

\* generatedCode.split('\n').map((line, index) => `${index + 1}: ${line}`).join('\n')
NumberLines(text) ==
  LET lines == SplitLines(text)
  IN  Join([k \in 1..Len(lines) |-> ToString(k) \o ": " \o lines[k]], "\n")

GeneratedCodeBanner ==
  "\n    \n    \n    ========== GENERATED CODE ===============\n\n    "

\* new WorkerError(message, stack, generatedCode); rendering stands for
\* this.generatedCode and this.generatedCode.trim().
NewWorkerError(message, stack, rendering) ==
  JSV("WorkerError", 0, "", message,
      stack \o GeneratedCodeBanner \o rendering.trimmed \o "\n    ",
      rendering.numbered)

Rendering(generatedCode) ==
  LET numbered == NumberLines(generatedCode)
  IN  [numbered |-> numbered, trimmed |-> Trim(numbered)]

(***************************************************************************)
(* The program synthesizer (lines 63-107).                                 *)
(***************************************************************************)
\* A dependency declaration {from, exports, default}; exports <<>> and
\* default "" stand for an absent property.
Dependency(from, exports, default) ==
  [from |-> from, exports |-> exports, default |-> default]

\* Mutant of DependencyStatements: the default binding is pushed first.
DependencyStatementsDefaultFirst(dependency) ==
  (IF Len(dependency.default) > 0
     THEN <<"const " \o dependency.default \o " = require('"
              \o dependency.from \o "');">>
     ELSE <<>>)
  \o (IF Len(dependency.exports) > 0
        THEN <<"const {" \o Join(dependency.exports, ",") \o "} = require('"
                 \o dependency.from \o "');">>
        ELSE <<>>)

\* The statements one declaration contributes (lines 81-82).
DependencyStatements(dependency) ==
  (IF Len(dependency.exports) > 0
     THEN <<"const {" \o Join(dependency.exports, ",") \o "} = require('"
              \o dependency.from \o "');">>
     ELSE <<>>)
  \o (IF Len(dependency.default) > 0
        THEN <<"const " \o dependency.default \o " = require('"
                 \o dependency.from \o "');">>
        ELSE <<>>)

RECURSIVE DepStrings(_)
DepStrings(dependencies) ==
  IF dependencies = <<>> THEN <<>>
  ELSE DependencyStatements(Head(dependencies)) \o DepStrings(Tail(dependencies))

createDependencyStrings(dependencies) == Join(DepStrings(dependencies), "\n")

\* __workerScript.toString(): the text of lines 92-102.
HarnessText ==
  "function __workerScript() {\n"
  \o "  __placeholderFor__('WORKER_FUNCTION')\n"
  \o "  const unknownResult = __placeholderFor__('WORKER_FUNCTION_NAME')(workerData)\n"
  \o "  Promise.resolve(unknownResult)\n"
  \o "    .then((data) => {\n"
  \o "      parentPort.postMessage(" \o BT \o "res:${JSON.stringify(data)}" \o BT \o ")\n"
  \o "    })\n"
  \o "    .catch((err) => {\n"
  \o "      parentPort.postMessage(" \o BT
  \o "err:${JSON.stringify({message: err.message, stack: err.stack})}" \o BT \o ")\n"
  \o "    })\n"
  \o "}"

FunctionPlaceholder == "__placeholderFor__('WORKER_FUNCTION')"
NamePlaceholder == "__placeholderFor__('WORKER_FUNCTION_NAME')"

\* A function value: its name, its toString() text and what calling it does.
\*   kind: "return" (returns Result), "async" (returns a promise that resolves
\*         to Result), "throw" (throws err), "reject" (returns a promise that
\*         rejects with err), "hang" (returns a promise that never settles);
\*   posts: the messages it posts on parentPort itself before it returns;
\*   late: it leaves a timer behind whose callback throws.
\* NotAFunction is a func argument that is no function (undefined).
Fn(name, text, kind, body, err, posts, late) ==
  [callable |-> TRUE, name |-> name, text |-> text, kind |-> kind,
   body |-> body, err |-> err, posts |-> posts, late |-> late]
NotAFunction ==
  [callable |-> FALSE, name |-> "", text |-> "", kind |-> "return",
   body |-> "noop", err |-> Undefined, posts |-> <<>>, late |-> FALSE]

\* getFunctionString (lines 88-90); reading .name of undefined throws.
getFunctionString(workerFunc) ==
  IF ~workerFunc.callable
    THEN Throw(Err("TypeError", "Cannot read properties of undefined (reading 'name')",
                   "TypeError: Cannot read properties of undefined (reading 'name')"))
    ELSE Normal(Str("const " \o workerFunc.name \o " = " \o workerFunc.text))

ScriptTemplate(dependencies) ==
  "\n        " \o createDependencyStrings(dependencies)
  \o "\n        const { parentPort, workerData } = require('node:worker_threads');"
  \o "\n        " \o HarnessText
  \o "\n        ;"
  \o "\n        __workerScript();"
  \o "\n        "

\* buildWorkerScript (lines 63-75): the program text, or what it throws.
buildWorkerScript(workerFunc, dependencies) ==
  LET fs == getFunctionString(workerFunc)
  IN  IF fs.threw THEN fs
      ELSE Normal(Str(Replace(Replace(ScriptTemplate(dependencies),
                                      FunctionPlaceholder, fs.value.str),
                              NamePlaceholder, workerFunc.name)))

(***************************************************************************)
(* The inputs of the model.                                                *)
(***************************************************************************)
Payloads == {Num(2), Num(4)}

\* What the body of a function computes from its argument.
Apply(body, payload) ==
  CASE body = "mul4" -> Num(payload.num * 4)
    [] body = "noop" -> Undefined
    [] body = "nan" -> NaN
    [] body = "str" -> Str("a~b")
    [] body = "bigint" -> BigInt1
    [] body = "dollar" -> Str("$" \o ToString(payload.num))
    [] OTHER -> Undefined

ErrorX == Err("Error", "X", "Error: X\n    at workerFunc")
ErrorLate == Err("Error", "late", "Error: late\n    at Timeout")

\* The messages a function that reaches for parentPort posts itself: one
\* with a tag the bridge does not know, one that forges a response.
ImpurePosts == {"xyz:1", "res:1"}

RECURSIVE SeqsUpTo(_, _)
SeqsUpTo(S, n) ==
  IF n = 0 THEN {<<>>}
  ELSE SeqsUpTo(S, n - 1)
         \cup {Append(q, x) : q \in {r \in SeqsUpTo(S, n - 1) : Len(r) = n - 1}, x \in S}

\* name, text, kind, body of the functions of the model.
FunctionShapes ==
  { <<"workerFunc", "(payload) => payload * 4", "return", "mul4">>,
    <<"workerFunc", "(payload) => new Promise((r) => setTimeout(() => r(payload * 4), 1500))",
      "async", "mul4">>,
    <<"workerFunc", "(payload) => {}", "return", "noop">>,
    <<"workerFunc", "(payload) => payload / 'a'", "return", "nan">>,
    <<"workerFunc", "(payload) => 'a~b'", "return", "str">>,
    <<"workerFunc", "(payload) => 1n", "return", "bigint">>,
    <<"workerFunc", "(payload) => { throw new Error('X') }", "throw", "noop">>,
    <<"workerFunc", "(payload) => new Promise((resolve, reject) => { throw new Error('X') })",
      "reject", "noop">>,
    <<"workerFunc", "(payload) => new Promise(() => {})", "hang", "noop">>,
    <<"", "(payload) => payload * 4", "return", "mul4">> }

Funcs ==
  { Fn(sh[1], sh[2], sh[3], sh[4], ErrorX, posts, late) :
      sh \in FunctionShapes, posts \in SeqsUpTo(ImpurePosts, MaxPosts),
      late \in BOOLEAN }

Mul4 == Fn("workerFunc", "(payload) => payload * 4", "return", "mul4", ErrorX, <<>>, FALSE)

\* Returns, and throws from a timer afterwards.
Mul4Late ==
  Fn("workerFunc", "(payload) => payload * 4", "return", "mul4", ErrorX, <<>>, TRUE)
\* Posts a message of its own, then throws.
XyzThrowX ==
  Fn("workerFunc", "(payload) => { throw new Error('X') }", "throw", "noop", ErrorX,
     <<"xyz:1">>, FALSE)

\* Its text holds $' (a quote after a dollar sign), one of the patterns
\* String.prototype.replace expands in a replacement string.
Dollar ==
  Fn("workerFunc", "(payload) => '$' + payload", "return", "dollar", ErrorX, <<>>, FALSE)

\* A function that only computes: it posts nothing itself and leaves no timer.
Pure(func) == func.callable /\ func.posts = <<>> /\ ~func.late

\* The modules require() resolves inside the worker.
Resolvable == {"lodash", "./add"}

DepLists ==
  { <<>>,
    <<Dependency("lodash", <<"join">>, "_")>>,
    <<Dependency("./add", <<"add">>, "")>>,
    <<Dependency("nope", <<>>, "")>>,
    <<Dependency("nope", <<>>, "nope")>>,
    <<Dependency("lodash", <<"join">>, "_"), Dependency("./add", <<"add">>, "")>>,
    <<Dependency("./add", <<>>, "add"), Dependency("nope", <<>>, ""),
      Dependency("lodash", <<"join", "uniq">>, "_")>> }

\* workerProps: a map from option names to values.
NoProps == [k \in {} |-> Undefined]
BadExecArgv == Str("--bad-option")
PropsSet ==
  { NoProps,
    [k \in {"eval"} |-> False],
    [k \in {"workerData", "stdout"} |-> True],
    [k \in {"execArgv"} |-> BadExecArgv] }

Call(func, payload, deps, props) ==
  [func |-> func, payload |-> payload, deps |-> deps, props |-> props]
NoCall == Call(NotAFunction, Undefined, <<>>, NoProps)

\* The calls of one invocation taken alone: every function with the plainest
\* arguments, and the plainest function with every argument.
Calls ==
  {Call(f, Num(2), <<>>, NoProps) : f \in Funcs \cup {NotAFunction, Dollar}}
    \cup {Call(Mul4, p, d, o) : p \in Payloads, d \in DepLists, o \in PropsSet}

\* The calls of invocations running together.
ConcCalls ==
  { Call(Mul4, Num(2), <<>>, NoProps),
    Call(Mul4Late, Num(4), <<>>, NoProps),
    Call(XyzThrowX, Num(2), <<>>, NoProps),
    Call(Mul4, Num(2), <<>>, [k \in {"execArgv"} |-> BadExecArgv]) }

\* buildWorkerScript of every call of the model, computed once.
BuiltScripts ==
  [k \in {<<c.func, c.deps>> : c \in Calls \cup ConcCalls} |->
     buildWorkerScript(k[1], k[2])]

\* The rendering of each of these scripts, computed once.
Renderings ==
  [text \in {BuiltScripts[k].value.str : k \in {j \in DOMAIN BuiltScripts :
                                                  ~BuiltScripts[j].threw}} |->
     Rendering(text)]

WorkerError(message, stack, generatedCode) ==
  NewWorkerError(message, stack,
                 IF generatedCode \in DOMAIN Renderings
                   THEN Renderings[generatedCode] ELSE Rendering(generatedCode))

IsWorkerError(v) == v.t = "WorkerError"

(***************************************************************************)
(* The worker: what the host does with new Worker(script, options), and    *)
(* what the synthesized program does when it runs.                         *)
(***************************************************************************)
\* Mutant of WorkerOptions: { eval: true, workerData: payload, ...workerProps }
WorkerOptionsPropsLast(workerProps, payload) ==
  [k \in DOMAIN workerProps \cup {"eval", "workerData"} |->
     IF k \in DOMAIN workerProps THEN workerProps[k]
     ELSE IF k = "eval" THEN True
     ELSE payload]

\* { ...workerProps, eval: true, workerData: payload } (line 40)
WorkerOptions(workerProps, payload) ==
  [k \in DOMAIN workerProps \cup {"eval", "workerData"} |->
     IF k = "eval" THEN True
     ELSE IF k = "workerData" THEN payload
     ELSE workerProps[k]]

\* new Worker(...) throws at once on options it rejects.
SpawnThrows(options) ==
  "execArgv" \in DOMAIN options /\ options["execArgv"] = BadExecArgv
SpawnError ==
  Err("Error", "Initiated Worker with invalid execArgv flags: --bad-option",
      "Error [ERR_WORKER_INVALID_EXEC_ARGV]: Initiated Worker with invalid execArgv flags")

\* The modules the program requires: one per emitted statement.
Required(dependencies) ==
  {dependencies[k].from : k \in {j \in DOMAIN dependencies :
                                   DependencyStatements(dependencies[j]) # <<>>}}

\* The program text holds the definition of func and the call of it as
\* getFunctionString and the harness wrote them.
HoldsFunction(script, func) ==
  /\ IndexOf(script, "const " \o func.name \o " = " \o func.text \o "\n") > 0
  /\ IndexOf(script, "const unknownResult = " \o func.name \o "(workerData)") > 0

\* Loading the program in the worker, up to the call of __workerScript():
\* without eval the text is taken for a file name; a function without a name
\* (const  = ...) and a definition the substitution has broken up do not
\* compile; a module that does not resolve ends the load.
ScriptLoad(options, script, func, dependencies) ==
  IF options["eval"] # True
    THEN Throw(Err("Error", "Cannot find module", "Error: Cannot find module"))
  ELSE IF func.name = ""
    THEN Throw(Err("SyntaxError", "Unexpected token '='",
                   "SyntaxError: Unexpected token '='"))
  ELSE IF ~HoldsFunction(script, func)
    THEN Throw(Err("SyntaxError", "Invalid or unexpected token",
                   "SyntaxError: Invalid or unexpected token"))
  ELSE IF Required(dependencies) \ Resolvable # {}
    THEN Throw(Err("Error", "Cannot find module 'nope'",
                   "Error: Cannot find module 'nope'\n    at require"))
  ELSE Normal(Undefined)

\* .then((data) => parentPort.postMessage("res:" + JSON.stringify(data)))
HarnessThen(data) ==
  LET text == JSONstringify(data)
  IN  IF text.threw THEN text
      ELSE Normal(Str("res:" \o TemplateString(text.value)))

\* Mutant of HarnessCatch: the failure is posted under the success tag.
HarnessCatchAsRes(err) ==
  Normal(Str("res:" \o TemplateString(JSONstringify(Obj(err.message, err.stack)).value)))

\* .catch((err) => parentPort.postMessage("err:" + JSON.stringify({message, stack})))
HarnessCatch(err) ==
  Normal(Str("err:" \o TemplateString(JSONstringify(Obj(err.message, err.stack)).value)))

\* The message the promise chain of lines 95-101 posts once unknownResult
\* has settled: a rejection, and a throw of the then callback, reach catch.
HarnessSettle(func, workerData) ==
  IF func.kind = "reject" THEN HarnessCatch(func.err)
  ELSE LET t == HarnessThen(Apply(func.body, workerData))
       IN  IF t.threw THEN HarnessCatch(t.value) ELSE t

\* Line 94, the call of the relocated function: a synchronous throw is not
\* inside the promise chain and leaves __workerScript uncaught.
HarnessCall(func) ==
  IF func.kind = "throw" THEN Throw(func.err) ELSE Normal(Undefined)

(***************************************************************************)
(* The bridge (lines 35-61).                                               *)
(***************************************************************************)
NoFuture == [state |-> "none", value |-> Undefined]
PendingFuture == [state |-> "pending", value |-> Undefined]

\* Mutant of Settle: a settled Promise settles again (a plain callback).
SettleAgain(future, state, value) == [state |-> state, value |-> value]

\* resolve(value) and reject(value) of a Promise: the first call settles it,
\* every later call does nothing.
Settle(future, state, value) ==
  IF future.state = "pending" THEN [state |-> state, value |-> value] ELSE future

Effect(op, value) == [op |-> op, value |-> value]

\* Mutant of Once: the listener stays registered after its event.
OnceKept(listening) == listening

\* Whether a listener is still registered once its event has been emitted:
\* worker.once (line 48) removes it before it runs, worker.on (line 43)
\* leaves it where it is.
Once(listening) == FALSE
On(listening) == listening

\* Mutant of ErrorListener: message and stack change places.
ErrorListenerSwapped(e, script) ==
  Effect("reject", WorkerError(e.stack, e.message, script))

\* The 'error' listener (lines 43-45).
ErrorListener(e, script) ==
  Effect("reject", WorkerError(e.message, e.stack, script))

\* Mutant of MessageProp: the stack is read where the message is meant.
MessagePropStack(v) == IF v.t = "object" /\ v.num = 0 THEN v.stack ELSE ""

\* result.message and the text of result.stack of a parsed result.
MessageProp(v) == IF v.t = "object" /\ v.num = 0 THEN v.message ELSE ""
StackProp(v) == IF v.t = "object" /\ v.num = 0 THEN v.stack ELSE "undefined"

\* Mutant of MessageListener: a tag that is neither 'res' nor 'err' rejects.
MessageListenerStrict(message, script) ==
  LET type == Substring(message, 0, 3)
      result == JSONparse(SubstringFrom(message, 4))
  IN  IF result.threw THEN Effect("throw", result.value)
      ELSE IF type = "res" THEN Effect("resolve", result.value)
      ELSE Effect("reject", WorkerError(MessageProp(result.value),
                                        StackProp(result.value), script))

\* The 'message' listener (lines 48-54): what it does to the promise, "throw"
\* when the listener itself throws, "none" when it returns without a call.
MessageListener(message, script) ==
  LET type == Substring(message, 0, 3)
      response == SubstringFrom(message, 4)
      result == JSONparse(response)
  IN  IF result.threw THEN Effect("throw", result.value)
      ELSE IF type = "res" THEN Effect("resolve", result.value)
      ELSE IF type = "err" /\ result.value = Null
        THEN Effect("throw", Err("TypeError", "Cannot read properties of null",
                                 "TypeError: Cannot read properties of null"))
      ELSE IF type = "err"
        THEN Effect("reject", WorkerError(MessageProp(result.value),
                                          StackProp(result.value), script))
      ELSE Effect("none", Undefined)

ApplyEffect(future, effect) ==
  CASE effect.op = "resolve" -> Settle(future, "resolved", effect.value)
    [] effect.op = "reject" -> Settle(future, "rejected", effect.value)
    [] OTHER -> future

(***************************************************************************)
(* State.                                                                  *)
(***************************************************************************)
VARIABLES
  inv,             \* per invocation: the call, its script, what it threw, its Promise
  workers,         \* per worker: the thread, its port to the parent, its two listeners
  nextWorker,      \* the id the next new Worker gets
  signals,         \* per invocation: the events its listeners' emitter delivered, in order
  settlements,     \* per invocation: the calls of resolve/reject that settled its Promise
  parent           \* "running", or "crashed" after an uncaught exception

vars == <<inv, workers, nextWorker, signals, settlements, parent>>

Invocations == 1..MaxInvocations
WorkerIds == 1..MaxInvocations

NoInvocation ==
  [pc |-> "idle", call |-> NoCall, script |-> "", thrown |-> Undefined,
   future |-> NoFuture, worker |-> 0]

NoWorker ==
  [pc |-> "none", owner |-> 0, script |-> "", options |-> NoProps, outbox |-> <<>>,
   err |-> Undefined, listening |-> FALSE, errListening |-> FALSE, called |-> FALSE,
   sent |-> <<>>]

Init ==
  /\ inv = [i \in Invocations |-> NoInvocation]
  /\ workers = [w \in WorkerIds |-> NoWorker]
  /\ nextWorker = 1
  /\ signals = [i \in Invocations |-> <<>>]
  /\ settlements = [i \in Invocations |-> <<>>]
  /\ parent = "running"

\* Mutant of NewWorkerId: a call is handed the worker of an earlier call when
\* there is one (a pool).
PooledWorkerId == IF nextWorker > 1 THEN nextWorker - 1 ELSE nextWorker

\* The Worker object new Worker(...) creates: a fresh one for every call.
NewWorkerId == nextWorker

Settlement(via, w, signal, future) ==
  [via |-> via, worker |-> w, signal |-> signal, state |-> future.state,
   value |-> future.value]

(***************************************************************************)
(* workerToPromise(func, payload, dependencies, workerProps), lines 35-61: *)
(* one synchronous run of the caller's thread.  buildWorkerScript runs     *)
(* before the try, so what it throws leaves workerToPromise as it is.  An  *)
(* executor that throws makes new Promise(...) return a Promise rejected   *)
(* with what was thrown: the constructor itself never throws, and the      *)
(* catch of lines 58-60 is never entered.                                  *)
(***************************************************************************)
workerToPromise(i, c) ==
  /\ parent = "running"
  /\ inv[i].pc = "idle"
  /\ LET built == BuiltScripts[<<c.func, c.deps>>]
         script == built.value.str
         options == WorkerOptions(c.props, c.payload)
         rejected == Settle(PendingFuture, "rejected", SpawnError)
         w == NewWorkerId
     IN  IF built.threw
           THEN /\ inv' = [inv EXCEPT ![i] =
                             [pc |-> "threw", call |-> c, script |-> "",
                              thrown |-> built.value, future |-> NoFuture, worker |-> 0]]
                /\ UNCHANGED <<workers, nextWorker, settlements>>
         ELSE IF SpawnThrows(options)
           THEN /\ inv' = [inv EXCEPT ![i] =
                             [pc |-> "returned", call |-> c, script |-> script,
                              thrown |-> Undefined, future |-> rejected, worker |-> 0]]
                /\ settlements' = [settlements EXCEPT ![i] =
                                     Append(@, Settlement("executor", 0, 0, rejected))]
                /\ UNCHANGED <<workers, nextWorker>>
         ELSE /\ inv' = [inv EXCEPT ![i] =
                           [pc |-> "returned", call |-> c, script |-> script,
                            thrown |-> Undefined, future |-> PendingFuture, worker |-> w]]
              /\ workers' = [workers EXCEPT ![w] =
                               [pc |-> "loading", owner |-> i, script |-> script,
                                options |-> options, outbox |-> <<>>, err |-> Undefined,
                                listening |-> TRUE, errListening |-> TRUE,
                                called |-> FALSE, sent |-> <<>>]]
              /\ nextWorker' = nextWorker + 1
              /\ UNCHANGED settlements
  /\ UNCHANGED <<signals, parent>>

(***************************************************************************)
(* The worker thread running the synthesized program.                      *)
(***************************************************************************)
FuncOf(w) == inv[workers[w].owner].call.func
DepsOf(w) == inv[workers[w].owner].call.deps

\* The program runs from its first line to the return of __workerScript():
\* the requires, the definition and the call of the relocated function
\* (which may post on parentPort itself), and the set-up of the promise chain.
\* An exception that escapes is the worker's uncaught exception.
WorkerRun(w) ==
  /\ workers[w].pc = "loading"
  /\ LET load == ScriptLoad(workers[w].options, workers[w].script, FuncOf(w), DepsOf(w))
         call == HarnessCall(FuncOf(w))
     IN  workers' = [workers EXCEPT ![w] =
           IF load.threw
             THEN [@ EXCEPT !.pc = "failed", !.err = load.value]
           ELSE IF call.threw
             THEN [@ EXCEPT !.pc = "failed", !.called = TRUE, !.err = call.value,
                            !.outbox = @ \o FuncOf(w).posts]
           ELSE [@ EXCEPT !.pc = "awaiting", !.called = TRUE,
                          !.outbox = @ \o FuncOf(w).posts]]
  /\ UNCHANGED <<inv, nextWorker, signals, settlements, parent>>

\* Mutant of WorkerSettle: the harness posts its message a second time.
WorkerSettleTwice(w) ==
  /\ workers[w].pc = "awaiting"
  /\ FuncOf(w).kind # "hang"
  /\ LET m == HarnessSettle(FuncOf(w), workers[w].options["workerData"]).value.str
     IN  workers' = [workers EXCEPT ![w] =
           [@ EXCEPT !.pc = "posted", !.outbox = @ \o <<m, m>>, !.sent = @ \o <<m, m>>]]
  /\ UNCHANGED <<inv, nextWorker, signals, settlements, parent>>

\* unknownResult settles and the then or the catch callback posts.
WorkerSettle(w) ==
  /\ workers[w].pc = "awaiting"
  /\ FuncOf(w).kind # "hang"
  /\ LET m == HarnessSettle(FuncOf(w), workers[w].options["workerData"]).value.str
     IN  workers' = [workers EXCEPT ![w] =
           [@ EXCEPT !.pc = "posted", !.outbox = Append(@, m), !.sent = Append(@, m)]]
  /\ UNCHANGED <<inv, nextWorker, signals, settlements, parent>>

\* A timer the function left behind fires after the response and throws.
WorkerLateThrow(w) ==
  /\ workers[w].pc = "posted"
  /\ FuncOf(w).late
  /\ workers' = [workers EXCEPT ![w] = [@ EXCEPT !.pc = "failed", !.err = ErrorLate]]
  /\ UNCHANGED <<inv, nextWorker, signals, settlements, parent>>

\* The thread ends: after an uncaught exception, or with nothing left to run.
WorkerExit(w) ==
  /\ \/ workers[w].pc = "failed"
     \/ workers[w].pc = "posted" /\ ~FuncOf(w).late
     \/ workers[w].pc = "awaiting" /\ FuncOf(w).kind = "hang"
  /\ workers' = [workers EXCEPT ![w] = [@ EXCEPT !.pc = "exited"]]
  /\ UNCHANGED <<inv, nextWorker, signals, settlements, parent>>

(***************************************************************************)
(* The parent thread's event loop delivering the worker's events.          *)
(***************************************************************************)
\* text is the message posted, or the message of the error; stack is the
\* error's stack; ran tells whether a listener was there to run; op is what
\* the listener did and settled whether that settled the Promise.
Signal(kind, w, text, stack, ran, op, settled) ==
  [kind |-> kind, worker |-> w, text |-> text, stack |-> stack, ran |-> ran,
   op |-> op, settled |-> settled]

\* What a listener's effect does to the state of invocation i.  A listener
\* that throws is an uncaught exception of the parent thread: the process
\* dies of it unless the host has installed an 'uncaughtException' handler.
Deliver(i, w, kind, text, stack, ran, effect) ==
  LET before == inv[i].future
      after == IF ran THEN ApplyEffect(before, effect) ELSE before
      settled == after # before
  IN  /\ inv' = [inv EXCEPT ![i].future = after]
      /\ signals' = [signals EXCEPT ![i] =
                       Append(@, Signal(kind, w, text, stack, ran,
                                        IF ran THEN effect.op ELSE "dropped", settled))]
      /\ settlements' = [settlements EXCEPT ![i] =
                           IF settled
                             THEN Append(@, Settlement(kind, w, Len(signals[i]) + 1, after))
                             ELSE @]
      /\ parent' \in IF ran /\ effect.op = "throw"
                        THEN {"running", "crashed"} ELSE {parent}

\* A 'message' event: worker.once (line 48) removes the listener before it
\* runs; with no listener left the event reaches nobody.
OnMessage(w) ==
  /\ parent = "running"
  /\ workers[w].pc # "none"
  /\ workers[w].outbox # <<>>
  /\ LET i == workers[w].owner
         m == Head(workers[w].outbox)
     IN  /\ Deliver(i, w, "message", m, "", workers[w].listening,
                    MessageListener(m, inv[i].script))
         /\ workers' = [workers EXCEPT ![w] =
                          [@ EXCEPT !.outbox = Tail(@), !.listening = Once(@)]]
  /\ UNCHANGED nextWorker

\* An 'error' event: worker.on (line 43) keeps its listener.
OnError(w) ==
  /\ parent = "running"
  /\ workers[w].pc # "none"
  /\ workers[w].err # Undefined
  /\ LET i == workers[w].owner
         e == workers[w].err
     IN  /\ Deliver(i, w, "error", e.message, e.stack, workers[w].errListening,
                    ErrorListener(e, inv[i].script))
         /\ workers' = [workers EXCEPT ![w] =
                          [@ EXCEPT !.err = Undefined, !.errListening = On(@)]]
  /\ UNCHANGED nextWorker

WorkerStep(w) ==
  \/ WorkerRun(w)
  \/ WorkerSettle(w)
  \/ WorkerLateThrow(w)
  \/ WorkerExit(w)

\* One invocation taken alone, with every call of Calls.
Next ==
  \/ \E c \in Calls : workerToPromise(1, c)
  \/ \E w \in WorkerIds : WorkerStep(w)
  \/ \E w \in WorkerIds : OnMessage(w)
  \/ \E w \in WorkerIds : OnError(w)

Spec == Init /\ [][Next]_vars

\* Invocations running together.
NextConc ==
  \/ \E i \in Invocations, c \in ConcCalls : workerToPromise(i, c)
  \/ \E w \in WorkerIds : WorkerStep(w)
  \/ \E w \in WorkerIds : OnMessage(w)
  \/ \E w \in WorkerIds : OnError(w)

SpecConc == Init /\ [][NextConc]_vars

(***************************************************************************)
(* Vocabulary of the properties.                                           *)
(***************************************************************************)
Spawned(i) == inv[i].worker # 0
WorkerOf(i) == workers[inv[i].worker]
FuncOfInv(i) == inv[i].call.func

\* The relocated function of invocation i has been called in its worker.
Ran(i) == Spawned(i) /\ WorkerOf(i).called

\* Nothing more can happen to invocation i: the call has returned or thrown,
\* its worker (if any) has exited and every event it emitted was delivered.
Quiescent(i) ==
  /\ inv[i].pc # "idle"
  /\ Spawned(i) => /\ WorkerOf(i).pc = "exited"
                   /\ WorkerOf(i).outbox = <<>>
                   /\ WorkerOf(i).err = Undefined

Settled(i) == inv[i].future.state \in {"resolved", "rejected"}

\* The listener runs of invocation i that called resolve or reject.
SettlingRuns(i) ==
  {k \in DOMAIN signals[i] : signals[i][k].ran /\ signals[i][k].op \in {"resolve", "reject"}}

C2_ResolvesWithResult ==
  \A i \in Invocations :
    Ran(i) /\ Pure(FuncOfInv(i)) /\ FuncOfInv(i).kind \in {"return", "async"} =>
      /\ inv[i].future.state # "rejected"
      /\ inv[i].future.state = "resolved" =>
           inv[i].future.value = Apply(FuncOfInv(i).body, inv[i].call.payload)
      /\ Quiescent(i) => inv[i].future.state = "resolved"

(***************************************************************************)
(* C3.                                                                     *)
(***************************************************************************)
\* C3: when a function that only computes throws Error(X), or returns a
\* pending value that rejects with it, the Future never resolves, and once
\* nothing more can happen it is rejected with a WorkerError whose message
\* is X.
C3_ThrowRejectsWithMessage ==
  \A i \in Invocations :
    Ran(i) /\ Pure(FuncOfInv(i)) /\ FuncOfInv(i).kind \in {"throw", "reject"} =>
      /\ inv[i].future.state # "resolved"
      /\ Quiescent(i) =>
           /\ inv[i].future.state = "rejected"
           /\ IsWorkerError(inv[i].future.value)
           /\ inv[i].future.value.message = FuncOfInv(i).err.message

\* A rejection of the returned pending value went through the harness, the
\* 'err' message and the listener, and rejected the Future.
C3_Witness ==
  \E i \in Invocations :
    /\ Ran(i) /\ Pure(FuncOfInv(i)) /\ FuncOfInv(i).kind = "reject"
    /\ Quiescent(i)
    /\ inv[i].future.state = "rejected"
    /\ inv[i].future.value.message = "X"

(***************************************************************************)
(* C4.                                                                     *)
(***************************************************************************)
\* C4: whatever workerToPromise throws to its caller, and whatever its
\* Future is rejected with, is a WorkerError.
C4_OnlyWorkerErrors ==
  \A i \in Invocations :
    /\ inv[i].pc = "threw" => IsWorkerError(inv[i].thrown)
    /\ inv[i].future.state = "rejected" => IsWorkerError(inv[i].future.value)

(***************************************************************************)
(* C5.                                                                     *)
(***************************************************************************)
\* C5: when a function that only computes has returned (a value, nothing, or
\* a pending value that settles) or thrown, and every event of its worker
\* has been delivered, the Future is resolved, or rejected with a
\* WorkerError: it is not left pending.
C5_NeverLeftPending ==
  \A i \in Invocations :
    /\ Ran(i) /\ Pure(FuncOfInv(i))
    /\ FuncOfInv(i).kind \in {"return", "async", "throw", "reject"}
    /\ Quiescent(i)
    => \/ inv[i].future.state = "resolved"
       \/ inv[i].future.state = "rejected" /\ IsWorkerError(inv[i].future.value)

(***************************************************************************)
(* C6.                                                                     *)
(***************************************************************************)
\* C6: a Future that a signal of the worker settled was settled by the first
\* signal that arrived; a signal that arrived second never decides it.
C6_FirstSignalDecides ==
  \A i \in Invocations :
    \A n \in DOMAIN settlements[i] :
      settlements[i][n].via # "executor" => settlements[i][n].signal = 1

(***************************************************************************)
(* C7.                                                                     *)
(***************************************************************************)
CreatedWorkers == {w \in WorkerIds : workers[w].pc # "none"}

\* C7: with invocations running together, every invocation that spawned has
\* exactly one worker, as many workers exist as invocations spawned, no two
\* invocations have the same worker, and every signal delivered to an
\* invocation and every settlement of its Future comes from its own worker.
C7_OneWorkerPerInvocation ==
  /\ Cardinality(CreatedWorkers) = Cardinality({i \in Invocations : Spawned(i)})
  /\ \A i \in Invocations :
       /\ Cardinality({w \in CreatedWorkers : workers[w].owner = i})
            = IF Spawned(i) THEN 1 ELSE 0
       /\ Spawned(i) => WorkerOf(i).owner = i
       /\ \A j \in Invocations : i # j /\ Spawned(i) /\ Spawned(j) =>
            inv[i].worker # inv[j].worker
       /\ \A k \in DOMAIN signals[i] : signals[i][k].worker = inv[i].worker
       /\ \A n \in DOMAIN settlements[i] :
            settlements[i][n].via # "executor" =>
              settlements[i][n].worker = inv[i].worker

\* Two invocations in flight together, each settled by its own worker.
C7_Witness ==
  \E i, j \in Invocations :
    /\ i # j /\ Spawned(i) /\ Spawned(j)
    /\ Len(settlements[i]) = 1 /\ settlements[i][1].worker = inv[i].worker
    /\ Len(settlements[j]) = 1 /\ settlements[j][1].worker = inv[j].worker

(***************************************************************************)
(* C8.                                                                     *)
(***************************************************************************)
\* C8: when buildWorkerScript throws, the caller gets a Future rejected with
\* a WorkerError, and no worker is spawned.
C8_SynthesisFailureRejects ==
  \A i \in Invocations :
    inv[i].pc # "idle" /\ buildWorkerScript(inv[i].call.func, inv[i].call.deps).threw =>
      /\ inv[i].future.state = "rejected"
      /\ IsWorkerError(inv[i].future.value)
      /\ ~Spawned(i)

(***************************************************************************)
(* C9.                                                                     *)
(***************************************************************************)
\* The Future of invocation i had settled before its k-th signal arrived.
SettledBefore(i, k) ==
  \E n \in DOMAIN settlements[i] : settlements[i][n].signal < k

\* C9: an 'error' event that arrives while the Future is pending rejects it
\* with a WorkerError whose message is the event's message, whose
\* generatedCode is the line-numbered program text of the invocation and
\* whose stack is the event's stack followed by the banner and that text.
C9_ErrorSignalRejects ==
  \A i \in Invocations :
    \A k \in DOMAIN signals[i] :
      signals[i][k].kind = "error" /\ ~SettledBefore(i, k) =>
        /\ signals[i][k].settled
        /\ WorkerOf(i).script = inv[i].script
        /\ inv[i].future.state = "rejected"
        /\ IsWorkerError(inv[i].future.value)
        /\ inv[i].future.value.message = signals[i][k].text
        /\ inv[i].future.value.generatedCode = NumberLines(inv[i].script)
        /\ inv[i].future.value.stack =
             signals[i][k].stack \o GeneratedCodeBanner
               \o Trim(NumberLines(inv[i].script)) \o "\n    "

\* An 'error' event rejected a pending Future.
C9_Witness ==
  \E i \in Invocations :
    \E k \in DOMAIN signals[i] :
      signals[i][k].kind = "error" /\ signals[i][k].settled

(***************************************************************************)
(* C10.                                                                    *)
(***************************************************************************)
\* The harness of worker w has nothing more to post.
HarnessDone(w) == workers[w].pc \in {"posted", "failed", "exited"}

\* m is an 'err' message whose body is the serialized {message, stack} of e.
IsErrMessageOf(m, e) ==
  /\ Substring(m, 0, 3) = "err"
  /\ CharAt(m, 4) = ":"
  /\ JSONparse(SubstringFrom(m, 4)) = Normal(Obj(e.message, e.stack))

\* C10 as stated: on both kinds of failure of the relocated function, a
\* rejection of the awaited value and a synchronous throw, the harness has
\* posted one 'err' message with the serialized {message, stack}.
C10_FailurePostsErr ==
  \A w \in CreatedWorkers :
    /\ workers[w].called /\ HarnessDone(w)
    /\ FuncOf(w).kind \in {"throw", "reject"}
    => /\ Len(workers[w].sent) = 1
       /\ IsErrMessageOf(workers[w].sent[1], FuncOf(w).err)

\* C10 as amended: when the awaited value rejects, the harness posts one
\* 'err' message with the serialized {message, stack} of the error; when the
\* call of the function throws synchronously, the harness posts nothing and
\* the error leaves the worker as its uncaught exception (the 'error' event).
C10_RejectionPostsErr ==
  \A w \in CreatedWorkers :
    workers[w].called /\ HarnessDone(w) =>
      /\ FuncOf(w).kind = "reject" =>
           /\ Len(workers[w].sent) = 1
           /\ IsErrMessageOf(workers[w].sent[1], FuncOf(w).err)
      /\ FuncOf(w).kind = "throw" =>
           /\ workers[w].sent = <<>>
           /\ \/ workers[w].err = FuncOf(w).err
              \/ \E k \in DOMAIN signals[workers[w].owner] :
                   /\ signals[workers[w].owner][k].kind = "error"
                   /\ signals[workers[w].owner][k].text = FuncOf(w).err.message
                   /\ signals[workers[w].owner][k].stack = FuncOf(w).err.stack

\* A rejection was posted as an 'err' message.
C10_Witness ==
  \E w \in CreatedWorkers :
    /\ workers[w].called /\ workers[w].pc = "exited"
    /\ FuncOf(w).kind = "reject"
    /\ Len(workers[w].sent) = 1

(***************************************************************************)
(* C11.                                                                    *)
(***************************************************************************)
\* C11 as stated: in every run of the harness, whatever the relocated
\* function did (returned, returned a pending value, threw, rejected,
\* returned a value that does not serialize), the harness has posted exactly
\* one message once it has nothing more to do.
C11_ExactlyOneMessage ==
  \A w \in CreatedWorkers :
    workers[w].called /\ HarnessDone(w) => Len(workers[w].sent) = 1

\* C11 as amended: the harness posts at most one message and none after it;
\* it has posted exactly one once the awaited value has settled (a result, a
\* rejection, or a result whose serialization fails, which is posted as
\* 'err'), and none when the call of the function threw synchronously or
\* the awaited value never settles.
C11_AtMostOneMessage ==
  \A w \in CreatedWorkers :
    /\ Len(workers[w].sent) <= 1
    /\ ~workers[w].called => workers[w].sent = <<>>
    /\ workers[w].called /\ HarnessDone(w) =>
         /\ FuncOf(w).kind \in {"return", "async", "reject"} =>
              Len(workers[w].sent) = 1
         /\ FuncOf(w).kind \in {"throw", "hang"} => workers[w].sent = <<>>
         /\ FuncOf(w).body = "bigint" /\ FuncOf(w).kind = "return" =>
              Substring(workers[w].sent[1], 0, 3) = "err"

\* A result that does not serialize was posted as the one 'err' message, and
\* the worker has ended without another.
C11_Witness ==
  \E w \in CreatedWorkers :
    /\ workers[w].pc = "exited"
    /\ FuncOf(w).body = "bigint" /\ FuncOf(w).kind = "return"
    /\ Len(workers[w].sent) = 1
    /\ Substring(workers[w].sent[1], 0, 3) = "err"

(***************************************************************************)
(* C12.                                                                    *)
(***************************************************************************)
\* The signals of one kind delivered to invocation i, as positions.
SignalsOfKind(i, kind) == {k \in DOMAIN signals[i] : signals[i][k].kind = kind}

\* Signal k of invocation i is not the first of its kind.
LaterOccurrence(i, k) ==
  \E j \in SignalsOfKind(i, signals[i][k].kind) : j < k

\* C12 as stated: both listeners are one-shot.  Once the first 'message' has
\* been handled no 'message' listener is left, once the first 'error' has
\* been handled no 'error' listener is left, and a later occurrence of
\* either event runs no handler.
C12_BothListenersOneShot ==
  \A i \in Invocations :
    Spawned(i) =>
      /\ SignalsOfKind(i, "message") # {} => ~WorkerOf(i).listening
      /\ SignalsOfKind(i, "error") # {} => ~WorkerOf(i).errListening
      /\ \A k \in DOMAIN signals[i] : LaterOccurrence(i, k) => ~signals[i][k].ran

\* C12 as amended: the 'message' listener is one-shot - it runs on the first
\* message, is gone from then on, and every later message of the invocation
\* is dropped without a handler running; the 'error' listener is persistent -
\* it stays registered after an 'error' event and runs on every one of them.
C12_MessageListenerOneShot ==
  \A i \in Invocations :
    Spawned(i) =>
      /\ WorkerOf(i).listening <=> SignalsOfKind(i, "message") = {}
      /\ WorkerOf(i).errListening
      /\ \A k \in SignalsOfKind(i, "message") :
           /\ signals[i][k].ran <=> ~LaterOccurrence(i, k)
           /\ LaterOccurrence(i, k) =>
                signals[i][k].op = "dropped" /\ ~signals[i][k].settled
      /\ \A k \in SignalsOfKind(i, "error") : signals[i][k].ran

\* A second message arrived and was dropped, and an 'error' event was handled
\* with its listener still in place.
C12_Witness ==
  \E i \in Invocations :
    /\ Spawned(i)
    /\ \E k \in SignalsOfKind(i, "message") : ~signals[i][k].ran
    /\ SignalsOfKind(i, "error") # {}
    /\ WorkerOf(i).errListening

(***************************************************************************)
(* C13.                                                                    *)
(***************************************************************************)
\* The first outbound message delivered to invocation i.
FirstMessage(i) ==
  CHOOSE k \in SignalsOfKind(i, "message") : ~LaterOccurrence(i, k)

\* The first outbound message of invocation i carried a tag that is neither
\* 'res' nor 'err' and found the Future unsettled.
UnknownTagFirst(i) ==
  /\ SignalsOfKind(i, "message") # {}
  /\ Substring(signals[i][FirstMessage(i)].text, 0, 3) \notin {"res", "err"}
  /\ ~SettledBefore(i, FirstMessage(i))

Stage(i) ==
  IF Settled(i) THEN "Settled"
  ELSE IF Spawned(i) THEN "Spawned"
  ELSE IF inv[i].pc # "idle" THEN "Synthesizing"
  ELSE "Pending"

StageOrder ==
  [st \in {"Pending", "Synthesizing", "Spawned", "Settled"} |->
     CASE st = "Pending" -> 0 [] st = "Synthesizing" -> 1
       [] st = "Spawned" -> 2 [] st = "Settled" -> 3]

\* No step takes an invocation back, and no step changes a settled Future.
NoTransitionBack ==
  [][\A i \in Invocations :
       /\ StageOrder[Stage(i)'] >= StageOrder[Stage(i)]
       /\ Settled(i) => inv[i].future' = inv[i].future]_vars

\* An invocation whose script could not be built is Settled(Failure) and was
\* never Spawned.
SynthesisFailureSettles ==
  \A i \in Invocations :
    inv[i].pc # "idle" /\ BuiltScripts[<<inv[i].call.func, inv[i].call.deps>>].threw =>
      inv[i].future.state = "rejected" /\ ~Spawned(i)

\* C14: the state of an invocation only moves forward through Pending,
\* Synthesizing, Spawned, Settled; a settled Future keeps its state and its
\* value whatever arrives later; and a synthesis failure ends in
\* Settled(Failure) without the invocation ever being Spawned.
C14_ForwardOnlyStateMachine ==
  NoTransitionBack /\ []SynthesisFailureSettles

(***************************************************************************)
(* C15.                                                                    *)
(***************************************************************************)
\* C15: the worker of an invocation has exited before the invocation is
\* finished - in no state is the Future settled while its worker still runs.
C15_TornDownBeforeSettled ==
  \A i \in Invocations :
    Spawned(i) /\ Settled(i) => WorkerOf(i).pc = "exited"

(***************************************************************************)
(* C16.                                                                    *)
(***************************************************************************)
\* C16: every worker is constructed with workerData equal to the payload of
\* its invocation and with eval on, also when workerProps sets eval or
\* workerData itself; the options have the keys of workerProps and these two,
\* and every other key has the value workerProps gave it.
C16_PayloadAndEvalForced ==
  \A w \in CreatedWorkers :
    LET call == inv[workers[w].owner].call
        options == workers[w].options
    IN  /\ options["workerData"] = call.payload
        /\ options["eval"] = True
        /\ DOMAIN options = DOMAIN call.props \cup {"eval", "workerData"}
        /\ \A k \in DOMAIN call.props \ {"eval", "workerData"} :
             options[k] = call.props[k]

\* A worker was constructed from workerProps that set workerData to something
\* else than the payload and carry another key besides.
C16_Witness ==
  \E w \in CreatedWorkers :
    LET call == inv[workers[w].owner].call
    IN  /\ "workerData" \in DOMAIN call.props
        /\ call.props["workerData"] # call.payload
        /\ DOMAIN call.props \ {"eval", "workerData"} # {}
        /\ workers[w].options["workerData"] = call.payload

(***************************************************************************)
(* C17.                                                                    *)
(***************************************************************************)
HasExports(d) == Len(d.exports) > 0
HasDefault(d) == Len(d.default) > 0

\* The statement that binds the named exports of declaration d, and the one
\* that binds its default.
ExportsStatement(d) ==
  "const {" \o Join(d.exports, ",") \o "} = require('" \o d.from \o "');"
DefaultStatement(d) == "const " \o d.default \o " = require('" \o d.from \o "');"

MessagingImport == "const { parentPort, workerData } = require('node:worker_threads');"

\* The binding statements of a program: its lines above the import of the
\* messaging primitives, without the indentation and without blank lines.
BindingStatements(script) ==
  LET lines == SplitLines(script)
      import == CHOOSE m \in DOMAIN lines :
                  /\ Trim(lines[m]) = MessagingImport
                  /\ \A l \in 1..(m - 1) : Trim(lines[l]) # MessagingImport
      above == [l \in 1..(import - 1) |-> Trim(lines[l])]
  IN  SelectSeq(above, LAMBDA line : line # "")

\* The number of statements the declarations before the j-th contribute.
StatementsBefore(deps, j) ==
  Cardinality({l \in 1..(j - 1) : HasExports(deps[l])})
    + Cardinality({l \in 1..(j - 1) : HasDefault(deps[l])})

\* C17: the binding statements of the synthesized program are those of the
\* declarations in declaration order: the j-th declaration's statements come
\* after those of all declarations before it, its named-exports statement
\* (only if exports is non-empty) before its default statement (only if
\* default is present), and a declaration with neither contributes none.
C17_StatementsInDeclarationOrder ==
  \A i \in Invocations :
    inv[i].pc = "returned" =>
      LET deps == inv[i].call.deps
          stmts == BindingStatements(inv[i].script)
      IN  /\ Len(stmts) = StatementsBefore(deps, Len(deps) + 1)
          /\ \A j \in DOMAIN deps :
               LET at == StatementsBefore(deps, j)
               IN  /\ HasExports(deps[j]) => stmts[at + 1] = ExportsStatement(deps[j])
                   /\ HasDefault(deps[j]) =>
                        stmts[at + (IF HasExports(deps[j]) THEN 2 ELSE 1)]
                          = DefaultStatement(deps[j])

\* A program was built from three declarations: one with a default only, one
\* with neither, one with both - three statements in all.
C17_Witness ==
  \E i \in Invocations :
    /\ inv[i].pc = "returned"
    /\ Len(inv[i].call.deps) = 3
    /\ \E j \in DOMAIN inv[i].call.deps :
         HasExports(inv[i].call.deps[j]) /\ HasDefault(inv[i].call.deps[j])
    /\ \E j \in DOMAIN inv[i].call.deps :
         ~HasExports(inv[i].call.deps[j]) /\ ~HasDefault(inv[i].call.deps[j])
    /\ Len(BindingStatements(inv[i].script)) = 3

(***************************************************************************)
(* C18.                                                                    *)
(***************************************************************************)
\* s with the first occurrence of p taken out and r put there as it is.
Spliced(s, p, r) ==
  LET at == IndexOf(s, p)
  IN  SubSeq(s, 1, at - 1) \o r \o SubSeq(s, at + Len(p), Len(s))

\* C18: the synthesized program is the template with the text
\* "const <name> = <the function's own text>", character for character, in
\* the place of the function placeholder and the function's name in the
\* place of the call placeholder, and nothing else of the template changed.
C18_FunctionTextUnchanged ==
  \A i \in Invocations :
    inv[i].pc = "returned" =>
      LET func == inv[i].call.func
          definition == "const " \o func.name \o " = " \o func.text
      IN  inv[i].script =
            Spliced(Spliced(ScriptTemplate(inv[i].call.deps), FunctionPlaceholder,
                            definition),
                    NamePlaceholder, func.name)

(***************************************************************************)
(* C19.                                                                    *)
(***************************************************************************)
\* rendering is text with its lines numbered from 1: as many entries as
\* text has lines, in order, the k-th being "k: " and the k-th line.
IsLineNumbered(rendering, text) ==
  LET entries == SplitLines(rendering)
      lines == SplitLines(text)
  IN  /\ Len(entries) = Len(lines)
      /\ \A k \in DOMAIN lines : entries[k] = ToString(k) \o ": " \o lines[k]

\* The stack of the error behind the n-th settlement of invocation i: that of
\* the 'error' event, or the one the 'err' message carries in its body.
OriginatingStack(i, n) ==
  LET signal == signals[i][settlements[i][n].signal]
  IN  IF signal.kind = "error" THEN signal.stack
      ELSE StackProp(JSONparse(SubstringFrom(signal.text, 4)).value)

\* C19: every WorkerError a Future is rejected with has, as generatedCode,
\* the program text handed to the worker of its invocation with its lines
\* numbered from 1, one entry per line and in order; its stack is the stack
\* of the originating error followed, after the GENERATED CODE banner, by
\* that rendering (with the white space around it trimmed).
C19_WorkerErrorCarriesProgram ==
  \A i \in Invocations :
    \A n \in DOMAIN settlements[i] :
      settlements[i][n].state = "rejected" /\ IsWorkerError(settlements[i][n].value) =>
        LET e == inv[i].future.value
        IN  /\ e = settlements[i][n].value
            /\ Spawned(i)
            /\ IsLineNumbered(e.generatedCode, WorkerOf(i).script)
            /\ e.stack = OriginatingStack(i, n) \o GeneratedCodeBanner
                            \o Trim(e.generatedCode) \o "\n    "

\* An 'err' message rejected the Future with a WorkerError that carries the
\* numbered program, whose last entry is numbered with the number of lines.
C19_Witness ==
  \E i \in Invocations :
    /\ Len(settlements[i]) = 1
    /\ settlements[i][1].via = "message"
    /\ settlements[i][1].state = "rejected"
    /\ IsWorkerError(inv[i].future.value)
    /\ Len(SplitLines(inv[i].future.value.generatedCode)) > 1
    /\ IsLineNumbered(inv[i].future.value.generatedCode, inv[i].script)
====
